---------------------------- MODULE Spec2Model ----------------------------
(***************************************************************************)
(* Model of the skiply-frontend client:                                    *)
(*   - the booking wizard  (src/src/components/LiveQueueBookingSection.tsx) *)
(*   - the auth context    (src/src/contexts/AuthContext.tsx)               *)
(*   - getDepartmentStatus as a pure function                               *)
(*   - the useBusinesses hook (src/unnamed/part_000).                       *)
(* React state is modelled as variables; every event handler runs to its   *)
(* next await atomically (single-threaded event loop), and the remainder   *)
(* of an async handler runs when its response arrives.                     *)
(***************************************************************************)
EXTENDS Integers, Sequences, FiniteSets, TLC

VARIABLES
    \* ---- booking wizard (LiveQueueBookingSection) ----
    business,            \* prop: the business being booked
    isVisible,           \* prop: whether the parent shows the section
    currentStep,         \* useState<BookingStep>
    selectedDepartment,  \* useState<Department | null>
    isLoading,           \* useState(false)
    bookingData,         \* useState<BookingData>
    inflight,            \* POST /api/queues/book requests awaiting a response
    \* ---- auth context (AuthProvider) ----
    user,                \* useState<User | null>
    isAuthenticated,     \* useState(false)
    authIsLoading,       \* useState(true)
    localStorage,        \* persisted keys "token" and "user"
    authMounted,         \* whether the provider's mount effect has run
    authPending,         \* auth requests awaiting a response, with what they captured
    \* ---- getDepartmentStatus applied to an arbitrary department ----
    statusDept,          \* the department handed to getDepartmentStatus
    statusOut,           \* the label it returned ("" before the call)
    \* ---- useBusinesses ----
    businesses,          \* useState<Business[]>([])
    loading,             \* useState(true)
    hookMounted,         \* whether the hook's mount effect has run
    fetches,             \* GET /api/businesses/all requests awaiting a response
    issued,              \* how many fetches have been issued
    \* ---- history ----
    lastGood,            \* the latest-issued fetch that has succeeded, with its data
    lastEvent            \* the handler or continuation that ran last, with its input

wizardVars == <<business, isVisible, currentStep, selectedDepartment, isLoading,
                bookingData, inflight>>
authVars   == <<user, isAuthenticated, authIsLoading, localStorage, authMounted,
                authPending>>
statusVars == <<statusDept, statusOut>>
hookVars   == <<businesses, loading, hookMounted, fetches, issued, lastGood>>
vars       == <<wizardVars, authVars, statusVars, hookVars, lastEvent>>

-----------------------------------------------------------------------------
(* Bounds of the model *)

\* typed phone values carry 0 or PhoneDigits-MaxSlack .. PhoneDigits+MaxSlack digits
MaxSlack == 1
\* typed phone values carry up to MaxJunk non-digit characters
MaxJunk == 1
\* the backend assigns token numbers 1..MaxToken
MaxToken == 2
\* cap on the booking requests awaiting a response at once
MaxInflight == 2
\* queue sizes handed to getDepartmentStatus range over 0..MaxQueue
MaxQueue == 12
\* cap on the auth requests awaiting a response at once
MaxAuthPending == 2
\* cap on the businesses fetches issued in a run
MaxFetches == 3

-----------------------------------------------------------------------------
(* Values *)

\* JavaScript null / undefined
NULL == [null |-> TRUE]

\* the values JavaScript's ! turns into true: "", null, false and 0 (undefined
\* is an absent field); the values are told apart by their printed form, as
\* they are of different kinds
Falsy(v) == ToString(v) \in {ToString(""), ToString(NULL), ToString(FALSE), ToString(0)}

\* !!obj[key], for an object that is not itself falsy
TruthyField(obj, key) == key \in DOMAIN obj /\ ~Falsy(obj[key])

\* { ...a, ...b }
Spread(a, b) ==
    [k \in DOMAIN a \cup DOMAIN b |-> IF k \in DOMAIN b THEN b[k] ELSE a[k]]

\* the fields that hold a File object rather than a string
FileFields == {"profileImageFile"}

\* a File: no enumerable own property, so JSON.stringify writes it as {}
ImageFile == [file |-> "avatar.png"]

\* JSON.stringify of a plain object: a text that parses back to the object,
\* with an empty object where the object held a File
JSONstringify(v) ==
    [json |-> [k \in DOMAIN v |-> IF k \in FileFields THEN [f \in {} |-> TRUE] ELSE v[k]]]

\* new Date().toISOString(): the clock is not modelled, one instant stands for it
NowISO == "2024-01-01T10:00:00.000Z"

\* new Date(t).toLocaleTimeString()
ToLocaleTimeString(t) == [localeTime |-> t]

Digits == {"0", "1", "2", "3", "4", "5", "6", "7", "8", "9"}

IsDigit(c) == c \in Digits

\* /^\d{10}$/ : the number of digits a phone must have
PhoneDigits == 10

\* mutant: the typed value is taken as it is
StripNonDigits_Nothing(s) == s

\* value.replace(/\D/g, '')
StripNonDigits(s) == SelectSeq(s, IsDigit)

\* mutant: the regex loses its lower bound, /^\d{0,10}$/
PhoneRegexTest_NoLowerBound(s) ==
    /\ Len(s) <= 10
    /\ \A i \in 1..Len(s) : IsDigit(s[i])

\* phoneRegex.test(s) with phoneRegex = /^\d{10}$/
PhoneRegexTest(s) ==
    /\ Len(s) = PhoneDigits
    /\ \A i \in 1..Len(s) : IsDigit(s[i])

\* the i-th digit character typed ("1","2",...,"9","0","1",...)
DigitAt(i) ==
    CASE i % 10 = 0 -> "0" [] i % 10 = 1 -> "1" [] i % 10 = 2 -> "2"
      [] i % 10 = 3 -> "3" [] i % 10 = 4 -> "4" [] i % 10 = 5 -> "5"
      [] i % 10 = 6 -> "6" [] i % 10 = 7 -> "7" [] i % 10 = 8 -> "8"
      [] OTHER -> "9"

\* a typed phone value: n digits, with a non-digit before each of the first j
TypedPhone(n, j) ==
    LET piece(i) == IF i <= j THEN <<"-", DigitAt(i)>> ELSE <<DigitAt(i)>>
        build[i \in 0..n] == IF i = 0 THEN <<>> ELSE build[i - 1] \o piece(i)
    IN  IF n = 0 THEN [i \in 1..j |-> "-"] ELSE build[n]

\* e.target.value of the phone input
PhoneInputs ==
    { TypedPhone(n, j) :
        n \in {0} \cup ((PhoneDigits - MaxSlack)..(PhoneDigits + MaxSlack)),
        j \in 0..MaxJunk }

NameInputs  == {"", "Bo"}
EmailInputs == {"", "bo@mail.io"}
NotesInputs == {"", "wheelchair"}

\* the session users of the model
User1 == [id |-> "u1", name |-> "Ann", email |-> "ann@mail.io", role |-> "user"]

\* a session user whose name is empty and whose email is missing
User2 == [id |-> "u2", name |-> "", role |-> "user"]

\* business.departments: one department with room, one labelled Full that
\* still has room, one full, one over its maximum
Departments ==
    << [id |-> "d1", name |-> "General",  currentQueueSize |-> 2,
        maxQueueSize |-> 10, estimatedWaitTime |-> 15],
       [id |-> "d2", name |-> "Dental",   currentQueueSize |-> 9,
        maxQueueSize |-> 10, estimatedWaitTime |-> 40],
       [id |-> "d3", name |-> "Lab",      currentQueueSize |-> 10,
        maxQueueSize |-> 10, estimatedWaitTime |-> 60],
       [id |-> "d4", name |-> "Pharmacy", currentQueueSize |-> 6,
        maxQueueSize |-> 5,  estimatedWaitTime |-> 5] >>

\* the business prop: with an id, with the backend's _id alone, with neither
Businesses ==
    { [id |-> "b1", name |-> "Clinic", departments |-> Departments],
      [_id |-> "m1", name |-> "Clinic", departments |-> Departments],
      [id |-> "", name |-> "Clinic", departments |-> Departments] }

-----------------------------------------------------------------------------
(* getDepartmentStatus *)

\* (dept.currentQueueSize / dept.maxQueueSize) * 100 >= t, in IEEE arithmetic:
\* x/0 is Infinity for x > 0, -Infinity for x < 0 and NaN (never >= t) for 0/0
PercentageAtLeast(dept, t) ==
    LET cur == dept.currentQueueSize
        max == dept.maxQueueSize
    IN  CASE max > 0 -> cur * 100 >= t * max
          [] max < 0 -> cur * 100 <= t * max
          [] OTHER   -> cur > 0

\* mutant: the thresholds are compared with > instead of >=
getDepartmentStatus_Strict(dept) ==
    IF ~PercentageAtLeast(dept, 90) THEN
        IF ~PercentageAtLeast(dept, 70) THEN
            IF ~PercentageAtLeast(dept, 30) THEN "Available" ELSE
                IF dept.currentQueueSize * 10 = 3 * dept.maxQueueSize THEN "Available" ELSE "Moderate"
        ELSE IF dept.currentQueueSize * 10 = 7 * dept.maxQueueSize THEN "Moderate" ELSE "Busy"
    ELSE IF dept.currentQueueSize * 10 = 9 * dept.maxQueueSize THEN "Busy" ELSE "Full"

getDepartmentStatus(dept) ==
    IF PercentageAtLeast(dept, 90) THEN "Full"
    ELSE IF PercentageAtLeast(dept, 70) THEN "Busy"
    ELSE IF PercentageAtLeast(dept, 30) THEN "Moderate"
    ELSE "Available"

-----------------------------------------------------------------------------
(* Booking wizard *)

\* user?.name || ""  and  user?.email || ""
UserField(u, f) == IF u # NULL /\ TruthyField(u, f) THEN u[f] ELSE ""

\* the bookingData of a fresh or reset wizard
InitialBookingData(u) ==
    [departmentId  |-> "",
     customerName  |-> UserField(u, "name"),
     customerPhone |-> <<>>,
     customerEmail |-> UserField(u, "email"),
     notes         |-> ""]

\* mutant: a department exactly at its maximum still counts as having room
DepartmentIsFull_OffByOne(dept) == dept.currentQueueSize > dept.maxQueueSize

\* the department card's onClick guard
DepartmentIsFull(dept) == dept.currentQueueSize >= dept.maxQueueSize

handleDepartmentSelect(dept) ==
    /\ selectedDepartment' = dept
    /\ bookingData' = Spread(bookingData, [departmentId |-> dept.id])

\* onClick={() => dept.currentQueueSize < dept.maxQueueSize && handleDepartmentSelect(dept)}
DepartmentCardClick(dept) ==
    /\ isVisible /\ currentStep = "departments"
    /\ IF ~DepartmentIsFull(dept)
         THEN handleDepartmentSelect(dept)
         ELSE UNCHANGED <<selectedDepartment, bookingData>>
    /\ lastEvent' = [op |-> "deptClick", dept |-> dept.id]
    /\ UNCHANGED <<business, isVisible, currentStep, isLoading, inflight>>
    /\ UNCHANGED <<authVars, statusVars, hookVars>>

\* disabled={!selectedDepartment}
NextButtonDisabled == selectedDepartment = NULL

\* the Next button of the departments step
NextButtonClick ==
    /\ isVisible /\ currentStep = "departments"
    /\ ~NextButtonDisabled
    /\ currentStep' = "details"
    /\ lastEvent' = [op |-> "next"]
    /\ UNCHANGED <<business, isVisible, selectedDepartment, isLoading, bookingData,
                   inflight>>
    /\ UNCHANGED <<authVars, statusVars, hookVars>>

\* the details step renders only with a selected department
DetailsStepShown ==
    isVisible /\ currentStep = "details" /\ selectedDepartment # NULL

CustomerNameChange(v) ==
    /\ DetailsStepShown
    /\ bookingData' = Spread(bookingData, [customerName |-> v])
    /\ lastEvent' = [op |-> "typeName"]
    /\ UNCHANGED <<business, isVisible, currentStep, selectedDepartment, isLoading,
                   inflight>>
    /\ UNCHANGED <<authVars, statusVars, hookVars>>

\* the phone input's onChange
CustomerPhoneChange(raw) ==
    /\ DetailsStepShown
    /\ LET value == StripNonDigits(raw)
       IN  IF Len(value) <= PhoneDigits
             THEN bookingData' = Spread(bookingData, [customerPhone |-> value])
             ELSE UNCHANGED bookingData
    /\ lastEvent' = [op |-> "typePhone", raw |-> raw]
    /\ UNCHANGED <<business, isVisible, currentStep, selectedDepartment, isLoading,
                   inflight>>
    /\ UNCHANGED <<authVars, statusVars, hookVars>>

CustomerEmailChange(v) ==
    /\ DetailsStepShown
    /\ bookingData' = Spread(bookingData, [customerEmail |-> v])
    /\ lastEvent' = [op |-> "typeEmail"]
    /\ UNCHANGED <<business, isVisible, currentStep, selectedDepartment, isLoading,
                   inflight>>
    /\ UNCHANGED <<authVars, statusVars, hookVars>>

NotesChange(v) ==
    /\ DetailsStepShown
    /\ bookingData' = Spread(bookingData, [notes |-> v])
    /\ lastEvent' = [op |-> "typeNotes"]
    /\ UNCHANGED <<business, isVisible, currentStep, selectedDepartment, isLoading,
                   inflight>>
    /\ UNCHANGED <<authVars, statusVars, hookVars>>

\* mutant: going back from the details step drops the selection
DetailsBackClick_DropsSelection ==
    /\ DetailsStepShown
    /\ currentStep' = "departments"
    /\ selectedDepartment' = NULL
    /\ lastEvent' = [op |-> "detailsBack"]
    /\ UNCHANGED <<business, isVisible, isLoading, bookingData, inflight>>
    /\ UNCHANGED <<authVars, statusVars, hookVars>>

\* the Back button of the details step
DetailsBackClick ==
    /\ DetailsStepShown
    /\ currentStep' = "departments"
    /\ lastEvent' = [op |-> "detailsBack"]
    /\ UNCHANGED <<business, isVisible, selectedDepartment, isLoading, bookingData,
                   inflight>>
    /\ UNCHANGED <<authVars, statusVars, hookVars>>

\* mutant: the details step advances without the phone pattern check
handleDetailsSubmit_NoPhoneCheck ==
    IF bookingData.customerName = "" \/ bookingData.customerPhone = <<>>
      THEN currentStep' = currentStep
      ELSE currentStep' = "confirm"

\* the step handleDetailsSubmit leaves the wizard on
handleDetailsSubmit ==
    IF bookingData.customerName = "" \/ bookingData.customerPhone = <<>>
      THEN currentStep' = currentStep
      ELSE IF ~PhoneRegexTest(bookingData.customerPhone)
        THEN currentStep' = currentStep
        ELSE currentStep' = "confirm"

\* disabled={!bookingData.customerName || !bookingData.customerPhone}
ContinueButtonDisabled ==
    bookingData.customerName = "" \/ bookingData.customerPhone = <<>>

\* the Continue to Confirmation button
ContinueButtonClick ==
    /\ DetailsStepShown
    /\ ~ContinueButtonDisabled
    /\ handleDetailsSubmit
    /\ lastEvent' = [op |-> "detailsSubmit"]
    /\ UNCHANGED <<business, isVisible, selectedDepartment, isLoading, bookingData,
                   inflight>>
    /\ UNCHANGED <<authVars, statusVars, hookVars>>

\* the confirm step renders only with a selected department
ConfirmStepShown ==
    isVisible /\ currentStep = "confirm" /\ selectedDepartment # NULL

\* the Back button of the confirm step
ConfirmBackClick ==
    /\ ConfirmStepShown
    /\ currentStep' = "details"
    /\ lastEvent' = [op |-> "confirmBack"]
    /\ UNCHANGED <<business, isVisible, selectedDepartment, isLoading, bookingData,
                   inflight>>
    /\ UNCHANGED <<authVars, statusVars, hookVars>>

\* business.id || (business as any)._id is truthy
HasBusinessId == TruthyField(business, "id") \/ TruthyField(business, "_id")

\* business.id || (business as any)._id, when it is truthy
businessId == IF TruthyField(business, "id") THEN business.id ELSE business._id

\* the body of POST /api/queues/book
BookingPayload ==
    [businessId     |-> businessId,
     businessName   |-> business.name,
     departmentName |-> selectedDepartment.name,
     customerName   |-> bookingData.customerName,
     customerPhone  |-> bookingData.customerPhone,
     notes          |-> bookingData.notes,
     bookedAt       |-> NowISO]

\* whether localStorage.getItem(key) is a non-null, non-empty string
HasItem(key) == key \in DOMAIN localStorage /\ localStorage[key] # ""

\* `Bearer ${localStorage.getItem("token")}`
BearerHeader ==
    <<"Bearer", IF "token" \in DOMAIN localStorage THEN localStorage["token"] ELSE "null">>

\* mutant: the handler does not look for a session user
handleConfirmBooking_NoUserCheck ==
    IF selectedDepartment = NULL
      THEN UNCHANGED <<isLoading, inflight>>
      ELSE IF ~HasBusinessId
        THEN isLoading' = FALSE /\ UNCHANGED inflight
        ELSE /\ isLoading' = TRUE
             /\ inflight' = Append(inflight,
                    [payload            |-> BookingPayload,
                     authorization      |-> BearerHeader,
                     selectedDepartment |-> selectedDepartment])

\* handleConfirmBooking up to its await: the request carries what the rest of
\* the handler closes over
handleConfirmBooking ==
    IF selectedDepartment = NULL \/ user = NULL
      THEN UNCHANGED <<isLoading, inflight>>
      ELSE IF ~HasBusinessId
        \* setIsLoading(true), the early return, then finally: setIsLoading(false)
        THEN isLoading' = FALSE /\ UNCHANGED inflight
        ELSE /\ isLoading' = TRUE
             /\ inflight' = Append(inflight,
                    [payload            |-> BookingPayload,
                     authorization      |-> BearerHeader,
                     selectedDepartment |-> selectedDepartment])

\* mutant: the confirm button is never disabled
ConfirmButtonDisabled_Never == FALSE

\* disabled={isLoading}
ConfirmButtonDisabled == isLoading

\* the Confirm Booking button
ConfirmButtonClick ==
    /\ ConfirmStepShown
    /\ ~ConfirmButtonDisabled
    /\ Len(inflight) < MaxInflight
    /\ handleConfirmBooking
    /\ lastEvent' = [op |-> "confirmClick"]
    /\ UNCHANGED <<business, isVisible, currentStep, selectedDepartment, bookingData>>
    /\ UNCHANGED <<authVars, statusVars, hookVars>>

\* the sequence s without its i-th element
RemoveAt(s, i) == [k \in 1..(Len(s) - 1) |-> IF k < i THEN s[k] ELSE s[k + 1]]

BookingIds == {"bk1"}

\* the booking records the backend may answer a request with
BookingResponses(req) ==
    { [_id            |-> id,
       tokenNumber    |-> t,
       businessName   |-> req.payload.businessName,
       departmentName |-> req.payload.departmentName,
       customerName   |-> req.payload.customerName,
       bookedAt       |-> req.payload.bookedAt] :
        id \in BookingIds, t \in 1..MaxToken }

\* qrData
QrData(booking) ==
    JSONstringify([bookingId      |-> booking._id,
                   tokenNumber    |-> booking._id,
                   businessName   |-> booking.businessName,
                   departmentName |-> booking.departmentName,
                   customerName   |-> booking.customerName,
                   date           |-> booking.bookedAt,
                   time           |-> ToLocaleTimeString(booking.bookedAt)])

\* the token number the wizard stores for a confirmed booking
StoredTokenNumber(booking) == 1

\* the fields handleConfirmBooking merges into bookingData on success
BookedFields(req, booking) ==
    [tokenNumber       |-> StoredTokenNumber(booking),
     estimatedWaitTime |-> req.selectedDepartment.estimatedWaitTime,
     bookingId         |-> booking._id,
     qrCode            |-> QrData(booking),
     bookedAt          |-> booking.bookedAt,
     businessName      |-> booking.businessName,
     departmentName    |-> booking.departmentName]

\* the step the wizard is on after a confirmed booking
StepAfterBooking == "success"

\* handleConfirmBooking after its await, res.ok and a parsable body
BookingResponseOk(i, booking) ==
    /\ i \in 1..Len(inflight)
    /\ booking \in BookingResponses(inflight[i])
    /\ bookingData' = Spread(bookingData, BookedFields(inflight[i], booking))
    /\ currentStep' = StepAfterBooking
    /\ isLoading' = FALSE
    /\ inflight' = RemoveAt(inflight, i)
    /\ lastEvent' = [op |-> "bookOk", booking |-> booking]
    /\ UNCHANGED <<business, isVisible, selectedDepartment>>
    /\ UNCHANGED <<authVars, statusVars, hookVars>>

\* mutant: the catch block sends the wizard back to the details step
StepAfterFailure_BackToDetails == "details"

\* the step the wizard is on after a failed booking
StepAfterFailure == currentStep

\* the loading flag once handleConfirmBooking's finally has run
LoadingAfterSettle == FALSE

\* mutant: the catch sends the failed request again
InflightAfterFailure_Resent(i) == Append(RemoveAt(inflight, i), inflight[i])

\* the requests in flight once the catch has run: it sends nothing
InflightAfterFailure(i) == RemoveAt(inflight, i)

\* handleConfirmBooking after its await: fetch rejected, !res.ok, or a body
\* that does not parse; catch, then finally
BookingResponseFail(i) ==
    /\ i \in 1..Len(inflight)
    /\ currentStep' = StepAfterFailure
    /\ isLoading' = LoadingAfterSettle
    /\ inflight' = InflightAfterFailure(i)
    /\ lastEvent' = [op |-> "bookFail", from |-> currentStep]
    /\ UNCHANGED <<business, isVisible, selectedDepartment, bookingData>>
    /\ UNCHANGED <<authVars, statusVars, hookVars>>

\* mutant: the reset merges the defaults into bookingData instead of replacing it
resetBooking_Merge ==
    /\ currentStep' = "departments"
    /\ selectedDepartment' = NULL
    /\ bookingData' = Spread(bookingData, InitialBookingData(user))

resetBooking ==
    /\ currentStep' = "departments"
    /\ selectedDepartment' = NULL
    /\ bookingData' = InitialBookingData(user)

\* handleClose: resetBooking(), then the parent's onClose() hides the section
handleClose ==
    /\ resetBooking
    /\ isVisible' = FALSE

\* the header's close button
CloseButtonClick ==
    /\ isVisible
    /\ handleClose
    /\ lastEvent' = [op |-> "close", from |-> currentStep]
    /\ UNCHANGED <<business, isLoading, inflight>>
    /\ UNCHANGED <<authVars, statusVars, hookVars>>

\* the success step renders only with a truthy bookingData.tokenNumber
SuccessStepShown ==
    /\ isVisible /\ currentStep = "success"
    /\ "tokenNumber" \in DOMAIN bookingData /\ bookingData.tokenNumber # 0

\* the Done button of the success step
DoneButtonClick ==
    /\ SuccessStepShown
    /\ handleClose
    /\ lastEvent' = [op |-> "done", from |-> currentStep]
    /\ UNCHANGED <<business, isLoading, inflight>>
    /\ UNCHANGED <<authVars, statusVars, hookVars>>

\* the parent shows the section again
ParentShow ==
    /\ ~isVisible
    /\ isVisible' = TRUE
    /\ lastEvent' = [op |-> "show"]
    /\ UNCHANGED <<business, currentStep, selectedDepartment, isLoading, bookingData,
                   inflight>>
    /\ UNCHANGED <<authVars, statusVars, hookVars>>

WizardInit ==
    /\ business \in Businesses
    /\ isVisible = TRUE
    /\ currentStep = "departments"
    /\ selectedDepartment = NULL
    /\ isLoading = FALSE
    /\ bookingData = InitialBookingData(user)
    /\ inflight = <<>>

-----------------------------------------------------------------------------
(* Auth context *)

\* localStorage.setItem(key, value)
SetItem(store, key, value) ==
    [k \in DOMAIN store \cup {key} |-> IF k = key THEN value ELSE store[k]]

\* localStorage.removeItem(key)
RemoveItem(store, key) == [k \in DOMAIN store \ {key} |-> store[k]]

\* an object with no fields; { ...null } is one
EmptyObject == [k \in {} |-> TRUE]

SpreadSource(o) == IF o = NULL THEN EmptyObject ELSE o

\* what GET /api/users/profile knows of the user
ServerProfile ==
    [id |-> "u1", name |-> "Ann", email |-> "ann@mail.io", role |-> "user",
     phone |-> "5550001111"]

\* the JSON body of a non-OK answer
ErrorBody == [message |-> "Unauthorized"]

\* bodies GET /api/users/profile may answer with
ProfileBodies == {ServerProfile, ErrorBody}

\* answers of POST /api/auth/login and /api/businesses/login: status and body
LoginAnswers ==
    { [ok |-> TRUE,  data |-> [user |-> User1, token |-> "tokA"]],
      [ok |-> TRUE,  data |-> [user |-> [id |-> "u1", name |-> "Ann", email |-> "ann@mail.io"],
                               token |-> "tokA"]],
      [ok |-> TRUE,  data |-> [user |-> User1]],
      [ok |-> TRUE,  data |-> [token |-> "tokA"]],
      [ok |-> TRUE,  data |-> [user |-> User1, token |-> ""]],
      [ok |-> TRUE,  data |-> [user |-> NULL, token |-> "tokA"]],
      [ok |-> TRUE,  data |-> [user |-> [id |-> "u1", name |-> "Ann", email |-> "ann@mail.io",
                                         role |-> ""],
                               token |-> "tokA"]],
      [ok |-> FALSE, data |-> [message |-> "Invalid credentials"]] }

\* the Partial<User> handed to updateProfile
ProfileEdits == { [name |-> "Anna"], [name |-> "Anna", profileImageFile |-> ImageFile] }

\* the edits that carry no file
TextEdits == { e \in ProfileEdits : DOMAIN e \cap FileFields = {} }

\* answers of PUT /api/users/profile: status and body
UpdateAnswers ==
    { [ok |-> TRUE,  result |-> [name |-> "Anna Lee", updatedAt |-> "2024-01-02"]],
      [ok |-> FALSE, result |-> [message |-> "Validation failed"]] }

\* the provider's mount effect
AuthMount ==
    /\ ~authMounted
    /\ authMounted' = TRUE
    /\ IF HasItem("token")
             THEN /\ authPending' = Append(authPending,
                        [kind |-> "initProfile", token |-> localStorage["token"],
                         persisted |-> localStorage])
                  /\ UNCHANGED <<user, isAuthenticated, authIsLoading>>
             ELSE /\ user' = NULL
                  /\ isAuthenticated' = FALSE
                  /\ authIsLoading' = FALSE
                  /\ UNCHANGED authPending
    /\ lastEvent' = [op |-> "mount"]
    /\ UNCHANGED localStorage
    /\ UNCHANGED <<wizardVars, statusVars, hookVars>>

\* the mount effect's .then callback: res.ok and a parsed profile.  The
\* .finally callback is a later microtask, InitProfileFinally
InitProfileOk(i, profile) ==
    /\ i \in 1..Len(authPending) /\ authPending[i].kind = "initProfile"
    /\ user' = profile
    /\ isAuthenticated' = TRUE
    /\ localStorage' = SetItem(localStorage, "user", JSONstringify(profile))
    /\ authPending' = RemoveAt(authPending, i)
    /\ lastEvent' = [op |-> "initOk", persisted |-> authPending[i].persisted]
    /\ UNCHANGED <<authIsLoading, authMounted>>
    /\ UNCHANGED <<wizardVars, statusVars, hookVars>>

\* mutant: the .catch forgets to remove the token
StorageAfterInitFailure_KeepsToken == RemoveItem(localStorage, "user")

\* localStorage once the mount effect's .catch has run
StorageAfterInitFailure == RemoveItem(RemoveItem(localStorage, "user"), "token")

\* the mount effect's .catch callback: fetch rejected, !res.ok, or an
\* unparsable body.  The .finally callback is a later microtask,
\* InitProfileFinally
InitProfileFail(i) ==
    /\ i \in 1..Len(authPending) /\ authPending[i].kind = "initProfile"
    /\ user' = NULL
    /\ isAuthenticated' = FALSE
    /\ localStorage' = StorageAfterInitFailure
    /\ authPending' = RemoveAt(authPending, i)
    /\ lastEvent' = [op |-> "initFail", had |-> DOMAIN localStorage,
                     persisted |-> authPending[i].persisted]
    /\ UNCHANGED <<authIsLoading, authMounted>>
    /\ UNCHANGED <<wizardVars, statusVars, hookVars>>

\* the mount effect's .then or .catch callback has run and its .finally
\* callback has not: isLoading is true from construction to that callback
\* alone, and the fetch is no longer awaited
InitFinallyQueued ==
    /\ authMounted
    /\ authIsLoading
    /\ \A i \in 1..Len(authPending) : authPending[i].kind # "initProfile"

\* mutant: the .finally is missing
LoadingAfterInitFetch_StillLoading == authIsLoading

\* isLoading once the mount effect's .finally has run
LoadingAfterInitFetch == FALSE

\* the mount effect's .finally callback, a microtask of its own after the
\* .then or the .catch callback: other callbacks may run in between
InitProfileFinally ==
    /\ InitFinallyQueued
    /\ authIsLoading' = LoadingAfterInitFetch
    /\ lastEvent' = [op |-> "initFinally"]
    /\ UNCHANGED <<user, isAuthenticated, localStorage, authMounted, authPending>>
    /\ UNCHANGED <<wizardVars, statusVars, hookVars>>

\* user, isAuthenticated and localStorage as a call finds them (history)
SessionNow ==
    [localStorage |-> localStorage, user |-> user, isAuthenticated |-> isAuthenticated]

\* the session a call starts from, kept for a call that starts while no other
\* call is awaiting its answer (history)
SessionBefore == IF authPending = <<>> THEN SessionNow ELSE NULL

\* login up to its first await
LoginCall ==
    /\ authMounted
    /\ Len(authPending) < MaxAuthPending
    /\ authPending' = Append(authPending, [kind |-> "login", before |-> SessionBefore])
    /\ lastEvent' = [op |-> "loginCall"]
    /\ UNCHANGED <<user, isAuthenticated, authIsLoading, localStorage, authMounted>>
    /\ UNCHANGED <<wizardVars, statusVars, hookVars>>

\* whether login accepts the answer to its POST
LoginAnswerValid(ans) ==
    /\ ans.ok
    /\ TruthyField(ans.data, "user")
    /\ TruthyField(ans.data, "token")
    /\ TruthyField(ans.data.user, "role")

\* login from the answer to its POST to its second await
LoginAnswer(i, ans) ==
    /\ i \in 1..Len(authPending) /\ authPending[i].kind = "login"
    /\ IF LoginAnswerValid(ans)
         THEN /\ localStorage' = SetItem(localStorage, "token", ans.data.token)
              /\ authPending' = [authPending EXCEPT
                    ![i] = [kind |-> "loginProfile", token |-> ans.data.token,
                            before |-> authPending[i].before]]
              /\ lastEvent' = [op |-> "loginToken"]
         ELSE /\ authPending' = RemoveAt(authPending, i)
              /\ lastEvent' = [op |-> "loginFail", before |-> authPending[i].before]
              /\ UNCHANGED localStorage
    /\ UNCHANGED <<user, isAuthenticated, authIsLoading, authMounted>>
    /\ UNCHANGED <<wizardVars, statusVars, hookVars>>

\* login: its POST rejected, or the body does not parse
LoginNetworkFail(i) ==
    /\ i \in 1..Len(authPending) /\ authPending[i].kind = "login"
    /\ authPending' = RemoveAt(authPending, i)
    /\ lastEvent' = [op |-> "loginFail", before |-> authPending[i].before]
    /\ UNCHANGED <<user, isAuthenticated, authIsLoading, localStorage, authMounted>>
    /\ UNCHANGED <<wizardVars, statusVars, hookVars>>

\* login after its profile fetch answered with a JSON body (res.ok is not read)
LoginProfileAnswer(i, profile) ==
    /\ i \in 1..Len(authPending) /\ authPending[i].kind = "loginProfile"
    /\ localStorage' = SetItem(localStorage, "user", JSONstringify(profile))
    /\ user' = profile
    /\ isAuthenticated' = TRUE
    /\ authPending' = RemoveAt(authPending, i)
    /\ lastEvent' = [op |-> "loginOk", token |-> authPending[i].token]
    /\ UNCHANGED <<authIsLoading, authMounted>>
    /\ UNCHANGED <<wizardVars, statusVars, hookVars>>

\* login: its profile fetch rejected, or the body does not parse
LoginProfileFail(i) ==
    /\ i \in 1..Len(authPending) /\ authPending[i].kind = "loginProfile"
    /\ authPending' = RemoveAt(authPending, i)
    /\ lastEvent' = [op |-> "loginFail", before |-> authPending[i].before]
    /\ UNCHANGED <<user, isAuthenticated, authIsLoading, localStorage, authMounted>>
    /\ UNCHANGED <<wizardVars, statusVars, hookVars>>

\* mutant: logout leaves the persisted user behind
StorageAfterLogout_KeepsUser == RemoveItem(localStorage, "token")

\* localStorage once logout has run
StorageAfterLogout == RemoveItem(RemoveItem(localStorage, "token"), "user")

logout ==
    /\ localStorage' = StorageAfterLogout
    /\ user' = NULL
    /\ isAuthenticated' = FALSE
    /\ lastEvent' = [op |-> "logout", was |-> isAuthenticated]
    /\ UNCHANGED <<authIsLoading, authMounted, authPending>>
    /\ UNCHANGED <<wizardVars, statusVars, hookVars>>

\* mutant: updateProfile does not look for a token
UpdateProfileHasToken_Always == TRUE

\* updateProfile's guard: a token is persisted
UpdateProfileHasToken == HasItem("token")

\* updateProfile up to its await; the rest closes over user
UpdateProfileCall(data) ==
    /\ authMounted
    /\ Len(authPending) < MaxAuthPending
    /\ IF ~UpdateProfileHasToken
         THEN /\ lastEvent' = [op |-> "updateRejected", error |-> "Not authenticated"]
              /\ UNCHANGED authPending
         ELSE /\ authPending' = Append(authPending,
                    [kind |-> "updateProfile", data |-> data, user |-> user,
                     contentType |-> "application/json", body |-> JSONstringify(data)])
              /\ lastEvent' = [op |-> "updateCall"]
    /\ UNCHANGED <<user, isAuthenticated, authIsLoading, localStorage, authMounted>>
    /\ UNCHANGED <<wizardVars, statusVars, hookVars>>

\* mutant: the submitted fields are spread last
MergedUser_DataWins(prev, data, result) == Spread(Spread(SpreadSource(prev), result), data)

\* { ...user, ...data, ...result }
MergedUser(prev, data, result) == Spread(Spread(SpreadSource(prev), data), result)

\* updateProfile after its PUT answered with a JSON body
UpdateProfileAnswer(i, ans) ==
    /\ i \in 1..Len(authPending) /\ authPending[i].kind = "updateProfile"
    /\ IF ans.ok
         THEN LET updatedUser == MergedUser(authPending[i].user, authPending[i].data,
                                            ans.result)
              IN  /\ user' = updatedUser
                  /\ localStorage' = SetItem(localStorage, "user", JSONstringify(updatedUser))
                  /\ lastEvent' = [op |-> "updateOk"]
         ELSE /\ lastEvent' = [op |-> "updateFail"]
              /\ UNCHANGED <<user, localStorage>>
    /\ authPending' = RemoveAt(authPending, i)
    /\ UNCHANGED <<isAuthenticated, authIsLoading, authMounted>>
    /\ UNCHANGED <<wizardVars, statusVars, hookVars>>

\* updateProfile: its PUT rejected, or the body does not parse
UpdateProfileNetworkFail(i) ==
    /\ i \in 1..Len(authPending) /\ authPending[i].kind = "updateProfile"
    /\ authPending' = RemoveAt(authPending, i)
    /\ lastEvent' = [op |-> "updateFail"]
    /\ UNCHANGED <<user, isAuthenticated, authIsLoading, localStorage, authMounted>>
    /\ UNCHANGED <<wizardVars, statusVars, hookVars>>

\* a stored text that JSON.parse rejects
UnparsableText == [text |-> "{oops"]

\* what a previous page load, or anything else writing the origin's storage,
\* may have left in localStorage
PersistedSessions ==
    { EmptyObject,
      [token |-> "tok0"],
      [token |-> "tok0", user |-> JSONstringify(User1)],
      [token |-> "tok0", user |-> UnparsableText],
      [token |-> "tok0", user |-> JSONstringify([id |-> "u1", name |-> "Ann"])] }

\* the provider before its mount effect
AuthInit ==
    /\ user = NULL
    /\ isAuthenticated = FALSE
    /\ authIsLoading = TRUE
    /\ localStorage \in PersistedSessions
    /\ authMounted = FALSE
    /\ authPending = <<>>

-----------------------------------------------------------------------------
(* getDepartmentStatus on arbitrary departments *)

StatusInit ==
    /\ statusDept \in [currentQueueSize : 0..MaxQueue, maxQueueSize : 0..MaxQueue]
    /\ statusOut = ""

\* the departments step renders the label of a department
RenderStatus ==
    /\ statusOut = ""
    /\ statusOut' = getDepartmentStatus(statusDept)
    /\ lastEvent' = [op |-> "renderStatus"]
    /\ UNCHANGED statusDept
    /\ UNCHANGED <<wizardVars, authVars, hookVars>>

-----------------------------------------------------------------------------
(* useBusinesses *)

\* the arrays GET /api/businesses/all answers with, as the data changes
BusinessLists == { <<"b1">>, <<"b1", "b2">> }

\* fetchBusinesses up to the fetch: the request is numbered in issue order
fetchBusinesses ==
    /\ loading' = TRUE
    /\ issued' = issued + 1
    /\ fetches' = Append(fetches, [id |-> issued + 1])

\* the hook's mount effect
HookMount ==
    /\ ~hookMounted
    /\ hookMounted' = TRUE
    /\ fetchBusinesses
    /\ lastEvent' = [op |-> "hookMount"]
    /\ UNCHANGED <<businesses, lastGood>>
    /\ UNCHANGED <<wizardVars, authVars, statusVars>>

\* a caller invokes refetchBusinesses
RefetchBusinesses ==
    /\ hookMounted
    /\ issued < MaxFetches
    /\ fetchBusinesses
    /\ lastEvent' = [op |-> "refetch"]
    /\ UNCHANGED <<businesses, hookMounted, lastGood>>
    /\ UNCHANGED <<wizardVars, authVars, statusVars>>

\* the .then chain of the i-th fetch awaiting a response: the body parsed
FetchAnswer(i, data) ==
    /\ i \in 1..Len(fetches)
    /\ businesses' = data
    /\ loading' = FALSE
    /\ fetches' = RemoveAt(fetches, i)
    /\ lastGood' = IF lastGood = NULL \/ fetches[i].id > lastGood.id
                     THEN [id |-> fetches[i].id, data |-> data]
                     ELSE lastGood
    /\ lastEvent' = [op |-> "fetchOk", id |-> fetches[i].id]
    /\ UNCHANGED <<hookMounted, issued>>
    /\ UNCHANGED <<wizardVars, authVars, statusVars>>

\* the .catch of the i-th fetch: the fetch rejected or the body did not parse
FetchFail(i) ==
    /\ i \in 1..Len(fetches)
    /\ loading' = FALSE
    /\ fetches' = RemoveAt(fetches, i)
    /\ lastEvent' = [op |-> "fetchFail", id |-> fetches[i].id]
    /\ UNCHANGED <<businesses, hookMounted, issued, lastGood>>
    /\ UNCHANGED <<wizardVars, authVars, statusVars>>

\* the hook before its mount effect
HookInit ==
    /\ businesses = <<>>
    /\ loading = TRUE
    /\ hookMounted = FALSE
    /\ fetches = <<>>
    /\ issued = 0
    /\ lastGood = NULL

-----------------------------------------------------------------------------
(* Specifications *)

\* the auth context of a wizard: a settled session, signed in or not
SettledSessions ==
    { [user |-> NULL,  isAuthenticated |-> FALSE, localStorage |-> EmptyObject],
      [user |-> User1, isAuthenticated |-> TRUE,
       localStorage |-> [token |-> "tokA", user |-> JSONstringify(User1)]],
      [user |-> User2, isAuthenticated |-> TRUE,
       localStorage |-> [token |-> "tokA", user |-> JSONstringify(User2)]] }

AuthSettled ==
    /\ \E s \in SettledSessions :
         /\ user = s.user
         /\ isAuthenticated = s.isAuthenticated
         /\ localStorage = s.localStorage
    /\ authIsLoading = FALSE
    /\ authMounted = TRUE
    /\ authPending = <<>>

\* a settled, signed-out auth context
AuthIdle ==
    /\ user = NULL
    /\ isAuthenticated = FALSE
    /\ localStorage = EmptyObject
    /\ authIsLoading = FALSE
    /\ authMounted = TRUE
    /\ authPending = <<>>

StatusIdle ==
    /\ statusDept = [currentQueueSize |-> 0, maxQueueSize |-> 1]
    /\ statusOut = ""

WizardIdle ==
    /\ business = [id |-> "b1", name |-> "Clinic", departments |-> Departments]
    /\ isVisible = FALSE
    /\ currentStep = "departments"
    /\ selectedDepartment = NULL
    /\ isLoading = FALSE
    /\ bookingData = InitialBookingData(NULL)
    /\ inflight = <<>>

\* the booking wizard, under a session that may end while it is open
Init == AuthSettled /\ WizardInit /\ StatusIdle /\ HookInit /\ lastEvent = [op |-> "none"]

Next ==
    \/ \E i \in 1..Len(Departments) : DepartmentCardClick(Departments[i])
    \/ NextButtonClick
    \/ \E v \in NameInputs : CustomerNameChange(v)
    \/ \E raw \in PhoneInputs : CustomerPhoneChange(raw)
    \/ \E v \in EmailInputs : CustomerEmailChange(v)
    \/ \E v \in NotesInputs : NotesChange(v)
    \/ DetailsBackClick
    \/ ContinueButtonClick
    \/ ConfirmBackClick
    \/ ConfirmButtonClick
    \/ \E i \in 1..Len(inflight) : \E b \in BookingResponses(inflight[i]) :
         BookingResponseOk(i, b)
    \/ \E i \in 1..Len(inflight) : BookingResponseFail(i)
    \/ CloseButtonClick
    \/ DoneButtonClick
    \/ ParentShow
    \/ logout

Spec == Init /\ [][Next]_vars

\* the auth context alone, its calls overlapping freely; the profile edits of
\* overlapping calls carry no file
InitAuth == AuthInit /\ WizardIdle /\ StatusIdle /\ HookInit /\ lastEvent = [op |-> "none"]

NextAuth ==
    \/ AuthMount
    \/ \E i \in 1..Len(authPending) : \E profile \in {ServerProfile} : InitProfileOk(i, profile)
    \/ \E i \in 1..Len(authPending) : InitProfileFail(i)
    \/ InitProfileFinally
    \/ LoginCall
    \/ \E i \in 1..Len(authPending) : \E ans \in LoginAnswers : LoginAnswer(i, ans)
    \/ \E i \in 1..Len(authPending) : LoginNetworkFail(i)
    \/ \E i \in 1..Len(authPending) : \E profile \in ProfileBodies : LoginProfileAnswer(i, profile)
    \/ \E i \in 1..Len(authPending) : LoginProfileFail(i)
    \/ logout
    \/ \E data \in TextEdits : UpdateProfileCall(data)
    \/ \E i \in 1..Len(authPending) : \E ans \in UpdateAnswers : UpdateProfileAnswer(i, ans)
    \/ \E i \in 1..Len(authPending) : UpdateProfileNetworkFail(i)

SpecAuth == InitAuth /\ [][NextAuth]_vars

\* the page is loaded again: a new provider with its initial state, the
\* continuations of the old page gone, localStorage as the old page left it
PageReload ==
    /\ authMounted
    /\ user' = NULL
    /\ isAuthenticated' = FALSE
    /\ authIsLoading' = TRUE
    /\ authMounted' = FALSE
    /\ authPending' = <<>>
    /\ lastEvent' = [op |-> "reload"]
    /\ UNCHANGED localStorage
    /\ UNCHANGED <<wizardVars, statusVars, hookVars>>

NextAuthReload == NextAuth \/ PageReload

\* the auth context across page loads
SpecAuthReload == InitAuth /\ [][NextAuthReload]_vars

\* the initial profile fetch settles, one way or the other
InitProfileSettles ==
    \E i \in 1..Len(authPending) :
        \/ \E profile \in {ServerProfile} : InitProfileOk(i, profile)
        \/ InitProfileFail(i)

\* the auth context whose mount effect runs, whose initial profile fetch
\* eventually settles and whose queued .finally callback runs
SpecAuthLive ==
    /\ InitAuth /\ [][NextAuth]_vars
    /\ WF_vars(AuthMount) /\ WF_vars(InitProfileSettles) /\ WF_vars(InitProfileFinally)

\* the auth context used one call at a time: no call starts while another is
\* awaiting its answer
NextAuthSeq ==
    \/ AuthMount
    \/ \E i \in 1..Len(authPending) : \E profile \in {ServerProfile} : InitProfileOk(i, profile)
    \/ \E i \in 1..Len(authPending) : InitProfileFail(i)
    \/ InitProfileFinally
    \/ authPending = <<>> /\ LoginCall
    \/ \E i \in 1..Len(authPending) : \E ans \in LoginAnswers : LoginAnswer(i, ans)
    \/ \E i \in 1..Len(authPending) : LoginNetworkFail(i)
    \/ \E i \in 1..Len(authPending) : \E profile \in ProfileBodies : LoginProfileAnswer(i, profile)
    \/ \E i \in 1..Len(authPending) : LoginProfileFail(i)
    \/ authPending = <<>> /\ logout
    \/ authPending = <<>> /\ \E data \in ProfileEdits : UpdateProfileCall(data)
    \/ \E i \in 1..Len(authPending) : \E ans \in UpdateAnswers : UpdateProfileAnswer(i, ans)
    \/ \E i \in 1..Len(authPending) : UpdateProfileNetworkFail(i)

SpecAuthSeq == InitAuth /\ [][NextAuthSeq]_vars

\* getDepartmentStatus alone
InitStatus == StatusInit /\ WizardIdle /\ AuthIdle /\ HookInit /\ lastEvent = [op |-> "none"]

NextStatus == RenderStatus

SpecStatus == InitStatus /\ [][NextStatus]_vars

\* the useBusinesses hook alone
InitHook == HookInit /\ WizardIdle /\ AuthIdle /\ StatusIdle /\ lastEvent = [op |-> "none"]

NextHook ==
    \/ HookMount
    \/ RefetchBusinesses
    \/ \E i \in 1..Len(fetches) : \E data \in BusinessLists : FetchAnswer(i, data)
    \/ \E i \in 1..Len(fetches) : FetchFail(i)

SpecHook == InitHook /\ [][NextHook]_vars

-----------------------------------------------------------------------------
(* Claims *)

\* the step changes the wizard's design allows
StepEdges ==
    { <<"departments", "details">>, <<"details", "confirm">>, <<"confirm", "success">>,
      <<"details", "departments">>, <<"confirm", "details">> }

\* C1: the step only ever changes along departments->details, details->confirm,
\* confirm->success, details->departments, confirm->details, and from any step
\* to departments by reset/close; no other step change ever occurs.
C1_StepEdgesOnly ==
    [][ currentStep' # currentStep =>
          \/ <<currentStep, currentStep'>> \in StepEdges
          \/ currentStep' = "departments" /\ lastEvent'.op \in {"close", "done"} ]_vars

\* C2: whenever the step is details, confirm or success, a department is selected.
C2_StepNeedsDepartment ==
    currentStep \in {"details", "confirm", "success"} => selectedDepartment # NULL

\* C3: a click on a department with currentQueueSize >= maxQueueSize leaves
\* selectedDepartment and bookingData.departmentId unchanged, and the selected
\* department is never one that is full.
C3_FullDepartmentRejected ==
    /\ [][ \A i \in 1..Len(Departments) :
             ( /\ DepartmentCardClick(Departments[i])
               /\ Departments[i].currentQueueSize >= Departments[i].maxQueueSize )
             => /\ selectedDepartment' = selectedDepartment
                /\ bookingData'.departmentId = bookingData.departmentId ]_vars
    /\ [](selectedDepartment # NULL =>
            selectedDepartment.currentQueueSize < selectedDepartment.maxQueueSize)

\* C3 witness: the full department d3 was clicked while d1 was selected, and d1
\* is still the selection.
C3_Witness ==
    /\ lastEvent = [op |-> "deptClick", dept |-> "d3"]
    /\ selectedDepartment # NULL
    /\ selectedDepartment.id = "d1"
    /\ bookingData.departmentId = "d1"

\* the customer name is non-empty and the phone is exactly 10 digits
DetailsValid ==
    /\ bookingData.customerName # ""
    /\ Len(bookingData.customerPhone) = 10
    /\ \A i \in 1..Len(bookingData.customerPhone) : bookingData.customerPhone[i] \in Digits

\* C4: the wizard goes from details to confirm only with a non-empty name and a
\* phone of exactly 10 digits; submitting the details step with anything else
\* leaves the step at details.
C4_DetailsGate ==
    [][ /\ (currentStep = "details" /\ currentStep' = "confirm") => DetailsValid
        /\ (ContinueButtonClick /\ ~DetailsValid) => currentStep' = "details" ]_vars

\* C4 witness: the details were submitted with a 9-digit phone and the wizard is
\* still on the details step.
C4_Witness ==
    /\ lastEvent.op = "detailsSubmit"
    /\ currentStep = "details"
    /\ bookingData.customerName # ""
    /\ Len(bookingData.customerPhone) = 9

\* C5: at most one booking request is in flight at any time.
C5_SingleRequestInFlight == Len(inflight) <= 1

\* C5 witness: with a request in flight the user went back to the details step
\* and returned to the confirm step, where the loading flag still gates the button.
C5_Witness ==
    /\ Len(inflight) = 1
    /\ currentStep = "confirm"
    /\ lastEvent.op = "detailsSubmit"
    /\ isLoading

\* C6: a failed booking submission (network error or non-OK response) leaves
\* the wizard on the confirm step with the loading flag cleared, and never
\* moves it to success.
C6_FailureLeavesConfirm ==
    lastEvent.op = "bookFail" => (currentStep = "confirm" /\ ~isLoading)

\* C7: closing the wizard from any state returns the step to departments, clears
\* the selected department and restores every booking field to its initial
\* default, with name and email taken from the current session user.
C7_CloseResets ==
    [][ (CloseButtonClick \/ DoneButtonClick) =>
          /\ currentStep' = "departments"
          /\ selectedDepartment' = NULL
          /\ bookingData' =
               [departmentId  |-> "",
                customerName  |-> IF user # NULL /\ "name" \in DOMAIN user
                                    THEN user.name ELSE "",
                customerPhone |-> <<>>,
                customerEmail |-> IF user # NULL /\ "email" \in DOMAIN user
                                    THEN user.email ELSE "",
                notes         |-> ""] ]_vars

\* C7 witness: the wizard was closed from the success step of a confirmed
\* booking made by a user with an empty name and no email under a typed name,
\* and no booking field is left: the name and the email are empty again.
C7_Witness ==
    /\ lastEvent = [op |-> "done", from |-> "success"]
    /\ user = User2
    /\ bookingData.customerName = ""
    /\ bookingData.customerEmail = ""
    /\ currentStep = "departments"
    /\ selectedDepartment = NULL
    /\ DOMAIN bookingData =
         {"departmentId", "customerName", "customerPhone", "customerEmail", "notes"}
    /\ bookingData.customerPhone = <<>>

\* C8: on the success step the token number held in bookingData is the token
\* number of the backend's booking response.
C8_TokenFromBackend ==
    (lastEvent.op = "bookOk" /\ currentStep = "success") =>
        bookingData.tokenNumber = lastEvent.booking.tokenNumber

\* the label the occupancy thresholds 90%, 70% and 30% give
ExpectedStatus(cur, max) ==
    IF cur * 10 >= 9 * max THEN "Full"
    ELSE IF cur * 10 >= 7 * max THEN "Busy"
    ELSE IF cur * 10 >= 3 * max THEN "Moderate"
    ELSE "Available"

\* C9: for maxQueueSize > 0 and currentQueueSize >= 0, getDepartmentStatus is
\* Full at >= 90% occupancy, else Busy at >= 70%, else Moderate at >= 30%, else
\* Available; 8/10 is Busy, 5/10 is Moderate, 10/10 is Full.
C9_StatusThresholds ==
    (statusOut # "" /\ statusDept.maxQueueSize > 0 /\ statusDept.currentQueueSize >= 0) =>
        /\ statusOut = ExpectedStatus(statusDept.currentQueueSize, statusDept.maxQueueSize)
        /\ (statusDept = [currentQueueSize |-> 8, maxQueueSize |-> 10] => statusOut = "Busy")
        /\ (statusDept = [currentQueueSize |-> 5, maxQueueSize |-> 10] => statusOut = "Moderate")
        /\ (statusDept = [currentQueueSize |-> 10, maxQueueSize |-> 10] => statusOut = "Full")

\* C9 witness: the label of a department at exactly 70% occupancy was computed.
C9_Witness ==
    /\ statusDept = [currentQueueSize |-> 7, maxQueueSize |-> 10]
    /\ statusOut = "Busy"

\* C10: when a token was persisted at initialization and the profile fetch has
\* failed, isAuthenticated is false, the in-memory user is null and both the
\* persisted token and the persisted user are gone.
C10_FailedResumeClears ==
    lastEvent.op = "initFail" =>
        /\ ~isAuthenticated
        /\ user = NULL
        /\ "token" \notin DOMAIN localStorage
        /\ "user" \notin DOMAIN localStorage

\* C10 witness: the profile fetch failed with a token and a user persisted.
C10_Witness ==
    /\ lastEvent.op = "initFail"
    /\ lastEvent.had = {"token", "user"}
    /\ localStorage = EmptyObject
    /\ authMounted

\* C11: whenever login returns successfully, the persisted token is the token of
\* the login response, the persisted user equals the in-memory user,
\* isAuthenticated is true, and that user is a valid user carrying a role
C11_LoginEstablishesSession ==
    lastEvent.op = "loginOk" =>
        /\ HasItem("token")
        /\ localStorage["token"] = lastEvent.token
        /\ "user" \in DOMAIN localStorage
        /\ localStorage["user"] = JSONstringify(user)
        /\ isAuthenticated
        /\ {"email", "role"} \subseteq DOMAIN user

\* C12: login fails whenever the answer to its POST is not successful or lacks
\* a token, a user, or a user role; and whenever login fails, the persisted
\* token, the persisted user, the in-memory user and isAuthenticated are as
\* they were before the call
C12_FailedLoginChangesNothing ==
    [][/\ \A i \in 1..Len(authPending) : \A ans \in LoginAnswers :
            LoginAnswer(i, ans) /\ ~LoginAnswerValid(ans) => lastEvent'.op = "loginFail"
       /\ lastEvent'.op = "loginFail" => SessionNow' = lastEvent'.before]_vars

\* C13: logout, called in any state, leaves the persisted token absent, the
\* persisted user absent, the in-memory user null and isAuthenticated false
\* immediately after it returns
C13_LogoutClears ==
    lastEvent.op = "logout" =>
        /\ "token" \notin DOMAIN localStorage
        /\ "user" \notin DOMAIN localStorage
        /\ user = NULL
        /\ ~isAuthenticated

\* logout has just ended a signed-in session while a call was awaiting its answer
C13_Witness ==
    /\ lastEvent = [op |-> "logout", was |-> TRUE]
    /\ localStorage = EmptyObject
    /\ user = NULL
    /\ authPending # <<>>

\* C14: updateProfile called when no token is persisted fails with
\* "Not authenticated", sends no request, and leaves the in-memory user and the
\* persisted state unchanged
C14_UpdateNeedsSession ==
    [][\A data \in ProfileEdits :
          UpdateProfileCall(data) /\ ~HasItem("token") =>
              /\ lastEvent' = [op |-> "updateRejected", error |-> "Not authenticated"]
              /\ authPending' = authPending
              /\ user' = user
              /\ isAuthenticated' = isAuthenticated
              /\ localStorage' = localStorage]_vars

\* updateProfile was rejected on a provider holding a user but no token
C14_Witness ==
    /\ lastEvent.op = "updateRejected"
    /\ user = ServerProfile
    /\ ~HasItem("token")

\* prev overlaid with data and then with result, field by field
Overlaid(prev, data, result) ==
    LET p == IF prev = NULL THEN EmptyObject ELSE prev
    IN  [k \in DOMAIN p \cup DOMAIN data \cup DOMAIN result |->
            IF k \in DOMAIN result THEN result[k]
            ELSE IF k \in DOMAIN data THEN data[k]
            ELSE p[k]]

\* C15: when updateProfile succeeds, the new in-memory user is the user the call
\* was made with, overlaid with the submitted fields and then with the server's
\* response (server values win), and the persisted user is that same record;
\* when the server answers non-OK, updateProfile fails and neither the
\* in-memory nor the persisted user changes
C15_UpdateMerges ==
    [][\A i \in 1..Len(authPending) : \A ans \in UpdateAnswers :
          UpdateProfileAnswer(i, ans) =>
              IF ans.ok
                THEN /\ user' = Overlaid(authPending[i].user, authPending[i].data, ans.result)
                     /\ "user" \in DOMAIN localStorage'
                     /\ localStorage'["user"] = JSONstringify(user')
                ELSE /\ lastEvent'.op = "updateFail"
                     /\ user' = user
                     /\ localStorage' = localStorage]_vars

\* a profile edit has succeeded: the server's name replaced the submitted one,
\* the fields neither touched are the previous user's
C15_Witness ==
    /\ lastEvent.op = "updateOk"
    /\ user # NULL
    /\ {"name", "email", "updatedAt"} \subseteq DOMAIN user
    /\ user.name = "Anna Lee"
    /\ user.email = "ann@mail.io"
    /\ "user" \in DOMAIN localStorage
    /\ localStorage["user"] = JSONstringify(user)

\* a persisted session whose user does not parse, or parses to a record lacking
\* email or role
MalformedSession(store) ==
    /\ "user" \in DOMAIN store
    /\ \/ "json" \notin DOMAIN store["user"]
       \/ ~({"email", "role"} \subseteq DOMAIN store["user"].json)

\* C16: at initialization, malformed persisted session data (an unparsable
\* persisted user, or one lacking email or role) is treated as no session: the
\* provider ends unauthenticated with a null user and the persisted token and
\* user removed
C16_MalformedSessionDiscarded ==
    (lastEvent.op \in {"initOk", "initFail"} /\ MalformedSession(lastEvent.persisted)) =>
        /\ ~isAuthenticated
        /\ user = NULL
        /\ "token" \notin DOMAIN localStorage
        /\ "user" \notin DOMAIN localStorage

\* C17: every booking request the wizard sends carries a non-empty customer
\* name and a customer phone of exactly 10 digits, after any sequence of
\* selecting, typing, advancing, going back, closing and resubmitting
C17_RequestsCarryValidDetails ==
    \A i \in 1..Len(inflight) :
        /\ inflight[i].payload.customerName # ""
        /\ Len(inflight[i].payload.customerPhone) = 10
        /\ \A j \in 1..Len(inflight[i].payload.customerPhone) :
               inflight[i].payload.customerPhone[j] \in Digits

\* a confirm click has just sent a request carrying a retyped name and a typed
\* phone
C17_Witness ==
    /\ lastEvent.op = "confirmClick"
    /\ Len(inflight) = 1
    /\ inflight[1].payload.customerName = "Bo"
    /\ inflight[1].payload.customerPhone = bookingData.customerPhone
    /\ Len(bookingData.customerPhone) = 10

\* C18: nothing is retried automatically: a booking request is sent only by a
\* click on the enabled confirm button, one request per click, and the step in
\* which a submission fails sends none, so the requests sent never outnumber
\* the confirm clicks
C18_NoAutomaticRetry ==
    [][/\ Len(inflight') > Len(inflight) =>
            /\ lastEvent'.op = "confirmClick"
            /\ ConfirmStepShown /\ ~ConfirmButtonDisabled
            /\ Len(inflight') = Len(inflight) + 1
            /\ SubSeq(inflight', 1, Len(inflight)) = inflight
       /\ lastEvent'.op \in {"bookFail", "bookOk"} =>
            Len(inflight') = Len(inflight) - 1]_vars

\* a submission has failed: no request is in flight and the confirm button is
\* there to be clicked again
C18_Witness ==
    /\ lastEvent.op = "bookFail"
    /\ inflight = <<>>
    /\ ConfirmStepShown
    /\ ~ConfirmButtonDisabled

\* C19: updateProfile submits the changed fields as a multipart payload exactly
\* when an image file is included and as JSON otherwise, and in both cases a
\* successful server response is merged into the in-memory and persisted user
C19_MultipartIffImage ==
    /\ \A i \in 1..Len(authPending) :
          authPending[i].kind = "updateProfile" =>
              (authPending[i].contentType = "multipart/form-data"
                  <=> "profileImageFile" \in DOMAIN authPending[i].data)
    /\ lastEvent.op = "updateOk" =>
          /\ {"name", "updatedAt"} \subseteq DOMAIN user
          /\ user.name = "Anna Lee"
          /\ "user" \in DOMAIN localStorage
          /\ localStorage["user"] = JSONstringify(user)

\* the wizard as a close or reset leaves it: on the departments step, nothing
\* selected, the booking fields at their defaults
WizardCleared ==
    /\ currentStep = "departments"
    /\ selectedDepartment = NULL
    /\ DOMAIN bookingData = DOMAIN InitialBookingData(NULL)
    /\ bookingData.departmentId = ""
    /\ bookingData.customerPhone = <<>>
    /\ bookingData.notes = ""

\* C20: once the wizard has been closed/reset, it stays on the departments step
\* with no selected department and cleared booking fields until the user
\* selects a department or presses Next, even when a booking request that was
\* in flight at the time of the close completes afterwards
C20_ClosedStaysCleared ==
    [][(WizardCleared /\ lastEvent'.op \notin {"deptClick", "next"}) =>
          WizardCleared']_vars

\* C21: for every department with maxQueueSize > 0, the department is labelled
\* "Full" if and only if clicking its card is rejected
C21_FullLabelIffRejected ==
    (statusOut # "" /\ statusDept.maxQueueSize > 0) =>
        (statusOut = "Full" <=> DepartmentIsFull(statusDept))

\* the phone field holds digit characters only, ten at most
PhoneIsDigits(phone) ==
    /\ Len(phone) <= 10
    /\ \A i \in 1..Len(phone) : phone[i] \in Digits

\* C22: in every reachable wizard state bookingData.customerPhone contains only
\* digit characters and has length at most 10: typed non-digits are stripped,
\* and an edit whose stripped value would exceed 10 digits is discarded,
\* leaving the phone unchanged
C22_PhoneDigitsAtMostTen ==
    [][/\ PhoneIsDigits(bookingData.customerPhone)
       /\ PhoneIsDigits(bookingData'.customerPhone)
       /\ lastEvent'.op = "typePhone" =>
            LET digits == SelectSeq(lastEvent'.raw, LAMBDA c : c \in Digits)
            IN  bookingData'.customerPhone =
                    IF Len(digits) > 10 THEN bookingData.customerPhone ELSE digits]_vars

\* eleven digits and a dash were typed over a ten-digit phone: the edit was
\* discarded
C22_Witness ==
    /\ lastEvent.op = "typePhone"
    /\ Len(lastEvent.raw) = 12
    /\ Len(SelectSeq(lastEvent.raw, LAMBDA c : c \in Digits)) = 11
    /\ Len(bookingData.customerPhone) = 10

\* C23: a confirm click while there is no session user (or no selected
\* department) sends no booking request and leaves the step, the loading flag
\* and the booking data unchanged; every booking request is sent while a
\* session user is present and a department is selected
C23_ConfirmNeedsUserAndDepartment ==
    [][/\ (lastEvent'.op = "confirmClick" /\ (user = NULL \/ selectedDepartment = NULL)) =>
            /\ inflight' = inflight
            /\ currentStep' = currentStep
            /\ isLoading' = isLoading
            /\ bookingData' = bookingData
       /\ Len(inflight') > Len(inflight) =>
            /\ user # NULL
            /\ selectedDepartment # NULL]_vars

\* the confirm button was clicked after the session had ended: nothing was sent
C23_Witness ==
    /\ lastEvent.op = "confirmClick"
    /\ user = NULL
    /\ currentStep = "confirm"
    /\ inflight = <<>>
    /\ ~isLoading

\* C24: backward navigation (details->departments and confirm->details) changes
\* only the current step: the selected department, every booking data field
\* and the loading flag are left unchanged
C24_BackChangesOnlyStep ==
    [][/\ lastEvent'.op = "detailsBack" => currentStep = "details" /\ currentStep' = "departments"
       /\ lastEvent'.op = "confirmBack" => currentStep = "confirm" /\ currentStep' = "details"
       /\ lastEvent'.op \in {"detailsBack", "confirmBack"} =>
            /\ selectedDepartment' = selectedDepartment
            /\ bookingData' = bookingData
            /\ isLoading' = isLoading
            /\ inflight' = inflight]_vars

\* the user went back to the departments step while a request was in flight:
\* the selection, the typed phone and the loading flag are still there
C24_Witness ==
    /\ lastEvent.op = "detailsBack"
    /\ currentStep = "departments"
    /\ selectedDepartment # NULL
    /\ Len(bookingData.customerPhone) = 10
    /\ isLoading

\* C25: in every reachable state of the auth context, under every interleaving
\* of initialization, login, logout and updateProfile with their pending
\* responses, isAuthenticated is true if and only if the in-memory user is
\* non-null
C25_AuthenticatedIffUser == isAuthenticated <=> user # NULL

\* C26: whenever the in-memory user is non-null (or a user record is persisted)
\* and no auth operation is awaiting a response, a bearer token is persisted
\* alongside it, under every interleaving of the initial profile fetch, login,
\* logout and updateProfile
C26_UserComesWithToken ==
    (authPending = <<>> /\ (user # NULL \/ "user" \in DOMAIN localStorage)) =>
        HasItem("token")

\* the session as logout leaves it
SessionCleared ==
    /\ user = NULL
    /\ ~isAuthenticated
    /\ "user" \notin DOMAIN localStorage

\* C27: after logout returns, the session stays cleared (in-memory user null,
\* isAuthenticated false, no persisted user) until a later login call succeeds,
\* even when a profile fetch, login or updateProfile request that was already
\* in flight completes after the logout.  No login called after the logout can
\* have succeeded by the step that follows it, so that step must leave the
\* session cleared.
C27_LogoutStaysCleared ==
    [][lastEvent.op = "logout" => SessionCleared']_vars

\* C28: the auth context's isLoading flag starts true, eventually becomes false
\* after initialization (at once when no token is persisted, otherwise once the
\* profile fetch succeeds or fails, the fetch settling eventually), and never
\* becomes true again afterwards
C28_LoadingEndsForGood == (authIsLoading = TRUE) /\ <>[](authIsLoading = FALSE)

\* the initial profile fetch has succeeded, its .finally callback has run and
\* the provider is no longer loading
C28_Witness ==
    /\ lastEvent.op = "initFinally"
    /\ user # NULL
    /\ ~authIsLoading
    /\ authMounted

\* C29: whenever no auth operation is awaiting a response, a user record is
\* persisted if and only if the in-memory user is non-null, and the persisted
\* record is the in-memory one
C29_UserAgreesWithStorage ==
    (authMounted /\ authPending = <<>>) =>
        /\ "user" \in DOMAIN localStorage <=> user # NULL
        /\ user # NULL => localStorage["user"] = JSONstringify(user)

\* C30: in useBusinesses the loading flag is false only when no businesses
\* fetch is in flight, under every interleaving of the initial fetch, repeated
\* refetchBusinesses calls and out-of-order responses; and once all fetches
\* have settled, businesses holds the data of the most recently issued
\* successful fetch
C30_LoadingAndLatestData ==
    /\ ~loading => fetches = <<>>
    /\ (fetches = <<>> /\ lastGood # NULL) => businesses = lastGood.data

=============================================================================
